---- MODULE Spec2Model ----
(***************************************************************************)
(* Battle lifecycle of the arena view (src/src/pages/BattleArena.tsx).     *)
(*                                                                         *)
(* The remote store holds one row of table battles and the rows of table   *)
(* solutions.  Every viewer's browser runs one BattleArena component: it   *)
(* keeps the last fetched battle and solution (react-query data), the      *)
(* React state derived from them, and issues the join / submit / end       *)
(* mutations.  A mutation is two steps: the client builds the request from *)
(* its own view and clock (handle...), and later the store applies it and  *)
(* the client's callbacks run (...Settled, or RequestFails).               *)
(* Columns and status values are the ones the component reads and writes  *)
(* (status 'waiting', start_time, end_time); the store applies an update   *)
(* to the rows its filters match and .single() fails on zero rows.         *)
(***************************************************************************)
EXTENDS Integers, Sequences, FiniteSets, TLC

(* ---------------------------- bounds ----------------------------------- *)
\* wall-clock advance of one Tick, in ms
ClockStep == 60000
\* the clock stops advancing here
MaxNow == 70000
\* mutation requests issued in one run, over all clients
MaxRequests == 3
\* SIGNED_IN events the auth provider delivers in one run
MaxSignIns == 1

(* ---------------------------- constants -------------------------------- *)
\* absent id or user (null)
Null == "null"
\* user?.id of a viewer who is not signed in (undefined, which === no id)
Undefined == "undefined"
\* absent timestamp (null)
NoTime == 0 - 1
\* battles.duration of the battle under study, in minutes
Duration == 1
\* signed-in users; "C" opened the challenge
Users == {"C", "D", "E"}
\* the browser sessions that have the arena of the battle open
Clients == {"tab1", "tab2"}
\* who is signed in where: any two of the users
Sessions == {<<"C", "D">>, <<"C", "E">>, <<"D", "E">>}
\* texts typed into the editor; " " is a text of white space only
Codes == {"a", "b", " "}
\* what the editor reports to onChange: a text, or "" (nothing left in it)
Typed == Codes \cup {""}

VARIABLES
    user,           \* per client: useAuth().user.id, fixed for the session
    now,            \* wall clock, ms (new Date().getTime())
    battles,        \* store: the row of table battles with id = battleId
    solutions,      \* store: rows of table solutions for battleId, in insertion order
    net,            \* requests issued by mutationFn and not yet answered
    sent,           \* number of requests issued so far
    battle,         \* per client: data of useQuery ['battle'] (<<>> while undefined)
    solution,       \* per client: data of useQuery ['solution'] (<<>> while null/undefined)
    isBattleActive, \* per client: React state
    isSubmitting,   \* per client: React state
    timeRemaining,  \* per client: React state (NoTime while null)
    code,           \* per client: React state, editor content
    reply,          \* the outcome the step just taken delivered to a client
    joined,         \* history: clients whose joinBattleMutation ran onSuccess
    refused,        \* history: clients whose join reached the store and got an error
    autoEnds,       \* history, per client: calls of endBattleMutation by determineWinner
    invalidated,    \* per client: query ['battle'] is invalidated and not yet refetched
    mounted,        \* per client: the BattleArena component is mounted (the view is open)
    isBattleOver,   \* per client: React state
    isBattleReady,  \* per client: React state
    winner,         \* per client: React state, id of the displayed winner (Null while null)
    loser,          \* per client: React state, id of the displayed loser (Null while null)
    solution_feedback, \* store: rows of table solution_feedback for battleId
    dbOutcomes,     \* how the exec_sql call of each provisioning statement ends
    dbRun,          \* what a run of initializeDatabase did and returned
    providerUser,   \* auth provider: the user of the current session (Null: none)
    ctxUser,        \* AuthProvider state `user` (id; Null while null)
    profile,        \* AuthProvider state `profile` (id of the profile held; Null while null)
    session,        \* AuthProvider state `session` (id of its user; Null while null)
    loading,        \* AuthProvider state
    dbInitialized,  \* AuthProvider state
    profiles,       \* store: number of rows of table profiles with id = Uid
    rating_history, \* store: number of 'Initial rating' rows of rating_history for Uid
    proc,           \* the async calls of the AuthProvider in progress, and where they are
    effectDb,       \* the dbInitialized the AuthProvider effect last ran with, as a
                    \* string ("none": it has not run)
    signIns,        \* number of SIGNED_IN events so far
    authReply       \* what the AuthProvider step just taken came to

vars == <<user, now, battles, solutions, net, sent, battle, solution, isBattleActive,
          isSubmitting, timeRemaining, code, reply, joined, refused, autoEnds,
          invalidated, mounted, isBattleOver, isBattleReady, winner, loser,
          solution_feedback, dbOutcomes, dbRun, providerUser, ctxUser, profile, session,
          loading, dbInitialized, profiles, rating_history, proc, effectDb, signIns,
          authReply>>

storeVars == <<battles, solutions>>
flagVars == <<isBattleOver, isBattleReady>>
resultVars == <<winner, loser>>
viewVars == <<battle, solution, isBattleActive, timeRemaining, flagVars, resultVars>>
histVars == <<joined, refused>>
dbVars == <<dbOutcomes, dbRun>>
ctxVars == <<ctxUser, profile, session, loading, dbInitialized>>
authVars == <<providerUser, ctxVars, profiles, rating_history, proc, effectDb, signIns,
              authReply>>
\* what the operations of the battle lifecycle never touch
otherVars == <<solution_feedback, dbVars, authVars>>
\* the state of the arena views and of their battle
arenaVars == <<user, now, storeVars, net, sent, viewVars, isSubmitting, code, reply,
               histVars, autoEnds, invalidated, mounted, solution_feedback>>

(* ---------------------------- the auth user ---------------------------- *)
\* useAuth().user of the viewer is an object (Null in user[c]: not signed in)
SignedInAlways(c) == TRUE
SignedIn(c) == user[c] # Null
\* user?.id
UserId(c) == IF user[c] # Null THEN user[c] ELSE Undefined

(* ---------------------------- initializeDatabase ----------------------- *)
\* the provisioning statements, in the order of their exec_sql calls
Statements == <<"profiles", "rating_history", "battles", "submissions", "join_battle">>
\* how the awaited supabase.rpc('exec_sql') ends: it resolves, it resolves
\* with an error in its result, or it rejects
Outcomes == {"ok", "error", "throws"}
AllOutcomes == [1..Len(Statements) -> Outcomes]
AllOk == [i \in 1..Len(Statements) |-> "ok"]

\* the statements from the i-th on: each one is attempted inside its own
\* try/catch, a rejection is logged with console.warn, and the function goes
\* on to the next one and returns true after the last
RECURSIVE provisionNoInnerTry(_, _)
provisionNoInnerTry(outcomes, i) ==
    IF i > Len(Statements)
    THEN [attempted |-> <<>>, warned |-> <<>>, result |-> TRUE]
    ELSE IF outcomes[i] = "throws"
    THEN [attempted |-> <<Statements[i]>>, warned |-> <<>>, result |-> FALSE]
    ELSE LET rest == provisionNoInnerTry(outcomes, i + 1)
         IN  [rest EXCEPT !.attempted = <<Statements[i]>> \o @]
RECURSIVE provision(_, _)
provision(outcomes, i) ==
    IF i > Len(Statements)
    THEN [attempted |-> <<>>, warned |-> <<>>, result |-> TRUE]
    ELSE LET rest == provision(outcomes, i + 1)
         IN  [rest EXCEPT !.attempted = <<Statements[i]>> \o @,
                          !.warned = IF outcomes[i] = "throws"
                                     THEN <<Statements[i]>> \o @ ELSE @]
initializeDatabase(outcomes) == provision(outcomes, 1)

\* no run of initializeDatabase is recorded
NoRun == [attempted |-> <<>>, warned |-> <<>>, result |-> FALSE]
DbIdle == dbOutcomes = AllOk /\ dbRun = NoRun

(* ---------------------------- auth context: state ---------------------- *)
\* the one user of the browser whose AuthProvider is under study
Uid == "U"
\* the async calls: initApp of the first and of the second run of the
\* effect, the onAuthStateChange handler of a SIGNED_IN event, and signOut
InitRuns == {"init1", "init2"}
Fetchers == InitRuns \cup {"evt"}
Procs == Fetchers \cup {"signOut"}
\* pc: the await the call is suspended at; closure: the dbInitialized its
\* closure captured; got: what initApp's session lookup came to
IdleProc == [pc |-> "idle", closure |-> FALSE, got |-> "none"]
NoAuthReply == [of |-> "none", what |-> "none"]
\* useState initial values, nobody signed in, empty tables
AuthIdle ==
    /\ providerUser = Null
    /\ ctxUser = Null /\ profile = Null /\ session = Null
    /\ loading = TRUE /\ dbInitialized = FALSE
    /\ profiles = 0 /\ rating_history = 0
    /\ proc = [p \in Procs |-> IdleProc]
    /\ effectDb = "none"
    /\ signIns = 0
    /\ authReply = NoAuthReply

(* ---------------------------- store rows ------------------------------- *)
\* the battle as created by the (external) open-challenge action
NewBattle ==
    [creator_id |-> "C", defender_id |-> Null, problem_id |-> 1,
     duration |-> Duration, status |-> "waiting", winner_id |-> Null,
     start_time |-> NoTime, end_time |-> NoTime]

\* rows of solutions with battle_id = battleId and user_id = u
SolutionsOf(u) == SelectSeq(solutions, LAMBDA r : r.user_id = u)

(* ---------------------------- query data ------------------------------- *)
\* `battle` is defined (the query has data)
HasBattle(c) == battle[c] # <<>>
\* the fetched row; read only under HasBattle(c)
View(c) == battle[c][1]
\* `solution` is truthy
HasSolution(c) == solution[c] # <<>>

\* .single() of the solution query: the one row, or error PGRST116 (no row,
\* or more than one row), which queryFn turns into null
SolutionQuery(u) ==
    IF Len(SolutionsOf(u)) = 1 THEN SolutionsOf(u) ELSE <<>>

(* ---------------------------- role predicates -------------------------- *)
isCreator(c) == HasBattle(c) /\ UserId(c) = View(c).creator_id
isDefender(c) == HasBattle(c) /\ UserId(c) = View(c).defender_id
hasJoined(c) == isCreator(c) \/ isDefender(c)
canJoinNoRoleCheck(c) == HasBattle(c) /\ View(c).status = "waiting"
canJoin(c) == HasBattle(c) /\ ~hasJoined(c) /\ View(c).status = "waiting"
canSubmitWhileTimeLeft(c) ==
    hasJoined(c) /\ isBattleActive[c] /\ ~HasSolution(c) /\ timeRemaining[c] # 0
canSubmit(c) == hasJoined(c) /\ isBattleActive[c] /\ ~HasSolution(c)
canEndAnyStatus(c) == hasJoined(c) /\ HasSolution(c)
canEnd(c) == hasJoined(c) /\ isBattleActive[c] /\ HasSolution(c)

(* ---------------------------- store updates ---------------------------- *)
\* update(battles).eq('id').eq('status','waiting').select().single():
\* TRUE when exactly one row matched (data), FALSE when none did (error)
JoinMatchesAnyStatus(row) == TRUE
JoinMatches(row) == row.status = "waiting"
JoinPatchNoStart(row, m) ==
    [row EXCEPT !.defender_id = m.user, !.status = "in_progress"]
JoinPatch(row, m) ==
    [row EXCEPT !.defender_id = m.user, !.status = "in_progress",
                !.start_time = m.ts]
JoinUpdateUnguarded(row, m) == JoinPatch(row, m)
JoinUpdate(row, m) == IF JoinMatches(row) THEN JoinPatch(row, m) ELSE row

\* update(battles).eq('id').select().single(): the row always matches
EndMatches(row) == TRUE
EndPatchNoEndTime(row, m) ==
    [row EXCEPT !.status = "completed", !.winner_id = m.winner]
EndPatch(row, m) ==
    [row EXCEPT !.status = "completed", !.end_time = m.ts,
                !.winner_id = m.winner]
EndUpdate(row, m) == IF EndMatches(row) THEN EndPatch(row, m) ELSE row

\* insert(solutions).select().single()
SolutionRow(m) == [user_id |-> m.user, code |-> m.code, submitted_at |-> m.ts]

(* ---------------------------- requests --------------------------------- *)
\* via tells the call site: a button's handler, or the countdown
JoinReq(c) == [kind |-> "join", from |-> c, user |-> UserId(c),
               ts |-> now, winner |-> Null, code |-> "", via |-> "button"]
SubmitReq(c, s) == [kind |-> "submit", from |-> c, user |-> UserId(c),
                    ts |-> now, winner |-> Null, code |-> s, via |-> "button"]
EndReq(c, w) == [kind |-> "end", from |-> c, user |-> UserId(c),
                 ts |-> now, winner |-> w, code |-> "", via |-> "button"]
TimeoutEndReq(c, w) == [EndReq(c, w) EXCEPT !.via = "timeout"]
FeedbackReq(c) == [kind |-> "feedback", from |-> c, user |-> UserId(c),
                   ts |-> now, winner |-> Null, code |-> "", via |-> "button"]
\* the outcome of request m as the client's callbacks see it: ok is TRUE for
\* onSuccess and FALSE for onError; before is the stored status the request
\* met, "unreached" when it never got to the store
Reply(m, ok, before) ==
    [kind |-> m.kind, from |-> m.from, user |-> m.user, ok |-> ok, before |-> before,
     via |-> m.via]
\* no callback ran in the step just taken
NoReply ==
    [kind |-> "none", from |-> "none", user |-> Null, ok |-> FALSE, before |-> "none",
     via |-> "none"]
Pending(c, k) == \E m \in net : m.from = c /\ m.kind = k
\* a request leaves the client
Send(m) == sent < MaxRequests /\ net' = net \cup {m} /\ sent' = sent + 1
NoSend == UNCHANGED <<net, sent>>

(* ---------------------------- countdown -------------------------------- *)
\* endTime - now of calculateTimeRemaining, for battle row b
timeLeft(b) == b.start_time + b.duration * 60 * 1000 - now
\* Math.ceil(timeLeft / 1000) for timeLeft > 0
FloorSeconds(t) == t \div 1000
CeilSeconds(t) == (t + 999) \div 1000
\* the winner determineWinner passes to endBattleMutation; Null when it
\* issues no request
determineWinnerSwapped(c, b) ==
    IF HasSolution(c)
    THEN (IF b.creator_id = UserId(c) THEN b.defender_id ELSE b.creator_id)
    ELSE UserId(c)
determineWinner(c, b) ==
    IF ~HasSolution(c)
    THEN (IF b.creator_id = UserId(c) THEN b.defender_id ELSE b.creator_id)
    ELSE UserId(c)
\* the countdown effect's guard, for battle row b and isBattleActive = active
CountdownOnNoActiveCheck(b, active) == b.duration # 0
CountdownOn(b, active) == b.duration # 0 /\ b.start_time # NoTime /\ active
\* one run of calculateTimeRemaining in client c, over battle row b
CountdownEndsEarly(c, b) ==
    IF timeLeft(b) > 1000
    THEN /\ timeRemaining' = [timeRemaining EXCEPT ![c] = CeilSeconds(timeLeft(b))]
         /\ NoSend
         /\ UNCHANGED autoEnds
    ELSE /\ timeRemaining' = [timeRemaining EXCEPT ![c] = 0]
         /\ IF b.winner_id = Null /\ SignedIn(c) /\ determineWinner(c, b) # Null
            THEN /\ Send(TimeoutEndReq(c, determineWinner(c, b)))
                 /\ autoEnds' = [autoEnds EXCEPT ![c] = @ + 1]
            ELSE NoSend /\ UNCHANGED autoEnds
Countdown(c, b) ==
    IF timeLeft(b) > 0
    THEN /\ timeRemaining' = [timeRemaining EXCEPT ![c] = CeilSeconds(timeLeft(b))]
         /\ NoSend
         /\ UNCHANGED autoEnds
    ELSE /\ timeRemaining' = [timeRemaining EXCEPT ![c] = 0]
         /\ IF b.winner_id = Null /\ SignedIn(c) /\ determineWinner(c, b) # Null
            THEN /\ Send(TimeoutEndReq(c, determineWinner(c, b)))
                 /\ autoEnds' = [autoEnds EXCEPT ![c] = @ + 1]
            ELSE NoSend /\ UNCHANGED autoEnds

(* ---------------------------- initial state ---------------------------- *)
\* two viewers open the arena of a battle that waits for its defender
Init ==
    /\ \E p \in Sessions : user = [c \in Clients |-> IF c = "tab1" THEN p[1] ELSE p[2]]
    /\ now = 0
    /\ battles = NewBattle
    /\ solutions = <<>>
    /\ net = {}
    /\ sent = 0
    /\ battle = [c \in Clients |-> <<>>]
    /\ solution = [c \in Clients |-> <<>>]
    /\ isBattleActive = [c \in Clients |-> FALSE]
    /\ isSubmitting = [c \in Clients |-> FALSE]
    /\ timeRemaining = [c \in Clients |-> NoTime]
    /\ code = [c \in Clients |-> ""]
    /\ reply = NoReply
    /\ joined = {}
    /\ refused = {}
    /\ autoEnds = [c \in Clients |-> 0]
    /\ invalidated = [c \in Clients |-> FALSE]
    /\ mounted = [c \in Clients |-> TRUE]
    /\ isBattleOver = [c \in Clients |-> FALSE]
    /\ isBattleReady = [c \in Clients |-> FALSE]
    /\ winner = [c \in Clients |-> Null]
    /\ loser = [c \in Clients |-> Null]
    /\ solution_feedback = <<>>
    /\ DbIdle
    /\ AuthIdle

(* ---------------------------- actions ---------------------------------- *)
\* the wall clock advances
Tick ==
    /\ now + ClockStep <= MaxNow
    /\ now' = now + ClockStep
    /\ reply' = NoReply
    /\ UNCHANGED <<otherVars, user, mounted, storeVars, net, sent, viewVars, isSubmitting, code, histVars,
                   autoEnds, invalidated>>

\* the battle query (re)fetches; the battle-state effect runs, and the
\* countdown effect, when its guard holds, calls calculateTimeRemaining at once
FetchBattle(c) ==
    /\ mounted[c]
    /\ battle' = [battle EXCEPT ![c] = <<battles>>]
    /\ isBattleReady' = [isBattleReady EXCEPT ![c] =
                             battles.status = "in_progress" \/ battles.status = "completed"]
    /\ isBattleActive' = [isBattleActive EXCEPT ![c] = (battles.status = "in_progress")]
    /\ isBattleOver' = [isBattleOver EXCEPT ![c] = (battles.status = "completed")]
    /\ IF CountdownOn(battles, battles.status = "in_progress")
       THEN Countdown(c, battles)
       ELSE UNCHANGED <<net, sent, timeRemaining, autoEnds>>
    /\ invalidated' = [invalidated EXCEPT ![c] = FALSE]
    /\ reply' = NoReply
    /\ UNCHANGED <<otherVars, user, mounted, now, storeVars, solution, isSubmitting, code, histVars,
                   resultVars>>

\* the solution query (re)fetches, then the initialize-code effect runs
FetchSolution(c) ==
    /\ mounted[c]
    /\ SignedIn(c)
    /\ solution' = [solution EXCEPT ![c] = SolutionQuery(UserId(c))]
    /\ code' = [code EXCEPT ![c] =
                   IF SolutionQuery(UserId(c)) # <<>> /\ SolutionQuery(UserId(c))[1].code # ""
                   THEN SolutionQuery(UserId(c))[1].code ELSE @]
    /\ reply' = NoReply
    /\ UNCHANGED <<otherVars, user, mounted, now, storeVars, net, sent, battle, isBattleActive,
                   isSubmitting, timeRemaining, histVars, autoEnds, invalidated,
                   flagVars, resultVars>>

\* Join Battle button -> handleJoinBattle -> joinBattleMutation.mutationFn
handleJoinBattle(c) ==
    /\ mounted[c]
    /\ canJoin(c)
    /\ ~Pending(c, "join")
    /\ IF SignedIn(c)
       THEN /\ Send(JoinReq(c))
            /\ reply' = NoReply
            /\ UNCHANGED mounted
       ELSE \* toast, navigate('/login'): the view is left
            /\ NoSend
            /\ reply' = Reply(JoinReq(c), FALSE, "login")
            /\ mounted' = [mounted EXCEPT ![c] = FALSE]
    /\ UNCHANGED <<otherVars, user, now, storeVars, viewVars, isSubmitting, code, histVars,
                   autoEnds, invalidated>>

\* the store answers a join request; onSuccess / onError run
JoinSettled(m) ==
    /\ m \in net /\ m.kind = "join"
    /\ net' = net \ {m}
    /\ battles' = JoinUpdate(battles, m)
    /\ reply' = Reply(m, JoinMatches(battles), battles.status)
    /\ IF JoinMatches(battles)
       THEN joined' = joined \cup {m.from} /\ UNCHANGED refused
       ELSE refused' = refused \cup {m.from} /\ UNCHANGED joined
    /\ invalidated' = [invalidated EXCEPT ![m.from] = @ \/ JoinMatches(battles)]
    /\ UNCHANGED <<otherVars, user, mounted, now, sent, solutions, viewVars, isSubmitting, code, autoEnds>>

\* Editor onChange: a non-empty value replaces the editor content
onChange(c, s) == IF s # "" THEN s ELSE code[c]

\* code.trim() over the texts of Typed
TrimKeepsBlank(s) == s
Trim(s) == IF s = " " THEN "" ELSE s

\* the editor reports s and handleSubmitSolution runs: an empty code.trim()
\* is refused with a toast before anything else happens, otherwise
\* setIsSubmitting(true) and submitSolutionMutation.mutationFn
handleSubmitSolution(c, s) ==
    /\ mounted[c]
    /\ canSubmit(c)
    /\ ~isSubmitting[c]
    /\ code' = [code EXCEPT ![c] = onChange(c, s)]
    /\ IF Trim(onChange(c, s)) = ""
       THEN /\ reply' = Reply(SubmitReq(c, onChange(c, s)), FALSE, "invalid")
            /\ UNCHANGED isSubmitting
            /\ NoSend
       ELSE IF UserId(c) = Undefined
       THEN \* mutationFn throws before the insert; onError, onSettled
            /\ reply' = Reply(SubmitReq(c, onChange(c, s)), FALSE, "no user")
            /\ UNCHANGED isSubmitting
            /\ NoSend
       ELSE /\ isSubmitting' = [isSubmitting EXCEPT ![c] = TRUE]
            /\ Send(SubmitReq(c, onChange(c, s)))
            /\ reply' = NoReply
    /\ UNCHANGED <<otherVars, user, mounted, now, storeVars, viewVars, histVars, autoEnds, invalidated>>

\* the store inserts the row; onSuccess and onSettled run
SubmitSettled(m) ==
    /\ m \in net /\ m.kind = "submit"
    /\ net' = net \ {m}
    /\ solutions' = Append(solutions, SolutionRow(m))
    /\ isSubmitting' = [isSubmitting EXCEPT ![m.from] = FALSE]
    /\ reply' = Reply(m, TRUE, battles.status)
    /\ UNCHANGED <<otherVars, user, mounted, now, sent, battles, viewVars, code, histVars, autoEnds,
                   invalidated>>

\* End Battle controls -> handleEndBattle(winnerId) -> endBattleMutation.mutationFn
handleEndBattleAnyWinner(c, w) ==
    /\ mounted[c]
    /\ canEnd(c)
    /\ w # Null
    /\ Send(EndReq(c, w))
    /\ reply' = NoReply
    /\ UNCHANGED <<otherVars, user, mounted, now, storeVars, viewVars, isSubmitting, code, histVars,
                   autoEnds, invalidated>>
handleEndBattle(c, w) ==
    /\ mounted[c]
    /\ canEnd(c)
    /\ \/ isCreator(c) /\ w = View(c).creator_id
       \/ isCreator(c) /\ View(c).defender_id # Null /\ w = View(c).defender_id
       \/ isDefender(c) /\ SignedIn(c) /\ w = UserId(c)
    /\ Send(EndReq(c, w))
    /\ reply' = NoReply
    /\ UNCHANGED <<otherVars, user, mounted, now, storeVars, viewVars, isSubmitting, code, histVars,
                   autoEnds, invalidated>>

\* the countdown effect has set its interval and the cleanup has not run
IntervalNeverCleared(c) == HasBattle(c) /\ CountdownOn(View(c), isBattleActive[c])
IntervalRunning(c) ==
    mounted[c] /\ HasBattle(c) /\ CountdownOn(View(c), isBattleActive[c])
\* calculateTimeRemaining runs again: an interval tick, or a re-run of the
\* countdown effect after a render
calculateTimeRemaining(c) ==
    /\ IntervalRunning(c)
    /\ Countdown(c, View(c))
    /\ reply' = NoReply
    /\ UNCHANGED <<otherVars, user, mounted, now, storeVars, battle, solution, isBattleActive,
                   isSubmitting, code, histVars, invalidated, flagVars, resultVars>>

\* the store answers an end request; onSuccess runs
EndSettled(m) ==
    /\ m \in net /\ m.kind = "end"
    /\ net' = net \ {m}
    /\ battles' = EndUpdate(battles, m)
    /\ reply' = Reply(m, EndMatches(battles), battles.status)
    /\ invalidated' = [invalidated EXCEPT ![m.from] = @ \/ EndMatches(battles)]
    /\ UNCHANGED <<otherVars, user, mounted, now, sent, solutions, viewVars, isSubmitting, code, histVars,
                   autoEnds>>

\* the request fails without a write (store unreachable, or it refuses);
\* onError, and for a submit onSettled, run
RequestFailsKeepsFlag(m) ==
    /\ m \in net
    /\ net' = net \ {m}
    /\ reply' = Reply(m, FALSE, "unreached")
    /\ UNCHANGED <<otherVars, user, mounted, now, sent, storeVars, viewVars, isSubmitting, code, histVars,
                   autoEnds, invalidated>>
RequestFails(m) ==
    /\ m \in net
    /\ net' = net \ {m}
    /\ isSubmitting' = [isSubmitting EXCEPT ![m.from] =
                           IF m.kind = "submit" THEN FALSE ELSE @]
    /\ reply' = Reply(m, FALSE, "unreached")
    /\ UNCHANGED <<otherVars, user, mounted, now, sent, storeVars, viewVars, code, histVars, autoEnds,
                   invalidated>>

Next ==
    \/ Tick
    \/ \E c \in Clients : FetchBattle(c)
    \/ \E c \in Clients : FetchSolution(c)
    \/ \E c \in Clients : handleJoinBattle(c)
    \/ \E m \in net : JoinSettled(m)
    \/ \E c \in Clients, s \in Typed : handleSubmitSolution(c, s)
    \/ \E m \in net : SubmitSettled(m)
    \/ \E c \in Clients, w \in Users : handleEndBattle(c, w)
    \/ \E c \in Clients : calculateTimeRemaining(c)
    \/ \E m \in net : EndSettled(m)
    \/ \E m \in net : RequestFails(m)

Spec == Init /\ [][Next]_vars

(* ---------------------------- the countdown alone --------------------- *)
\* period of setInterval(calculateTimeRemaining, ...), ms
IntervalMs == 1000
\* start timestamps, durations (minutes) and distances of the clock from the
\* deadline (ms) at which a viewer opens the arena of a running battle
StartTimes == {0, 1500}
Durations == {1, 2}
Offsets == {0 - 5000, 0 - 4001, 0 - 1000, 0 - 999, 0 - 1, 0, 1}

\* a battle that D joined at start timestamp T is in_progress; two viewers
\* open its arena some time around the deadline
CountdownInit ==
    /\ \E p \in Sessions : user = [c \in Clients |-> IF c = "tab1" THEN p[1] ELSE p[2]]
    /\ \E T \in StartTimes, d \in Durations, o \in Offsets :
           /\ battles = [NewBattle EXCEPT !.defender_id = "D", !.status = "in_progress",
                                          !.start_time = T, !.duration = d]
           /\ now = T + d * 60 * 1000 + o
    /\ solutions = <<>>
    /\ net = {}
    /\ sent = 0
    /\ battle = [c \in Clients |-> <<>>]
    /\ solution = [c \in Clients |-> <<>>]
    /\ isBattleActive = [c \in Clients |-> FALSE]
    /\ isSubmitting = [c \in Clients |-> FALSE]
    /\ timeRemaining = [c \in Clients |-> NoTime]
    /\ code = [c \in Clients |-> ""]
    /\ reply = NoReply
    /\ joined = {}
    /\ refused = {}
    /\ autoEnds = [c \in Clients |-> 0]
    /\ invalidated = [c \in Clients |-> FALSE]
    /\ mounted = [c \in Clients |-> TRUE]
    /\ isBattleOver = [c \in Clients |-> FALSE]
    /\ isBattleReady = [c \in Clients |-> FALSE]
    /\ winner = [c \in Clients |-> Null]
    /\ loser = [c \in Clients |-> Null]
    /\ solution_feedback = <<>>
    /\ DbIdle
    /\ AuthIdle

\* one period of the interval goes by, until one period past the deadline
IntervalTick ==
    /\ timeLeft(battles) + IntervalMs > 0
    /\ now' = now + IntervalMs
    /\ reply' = NoReply
    /\ UNCHANGED <<otherVars, user, mounted, storeVars, net, sent, viewVars, isSubmitting, code, histVars,
                   autoEnds, invalidated>>

CountdownNext ==
    \/ IntervalTick
    \/ \E c \in Clients : FetchBattle(c)
    \/ \E c \in Clients : calculateTimeRemaining(c)
    \/ \E m \in net : EndSettled(m)

CountdownSpec == CountdownInit /\ [][CountdownNext]_vars

(* ---------------------------- leaving the view, liveness ---------------- *)
\* the viewer navigates away: the component unmounts, the effect cleanups
\* run (clearInterval) and the queries lose their observer; mutations in
\* flight go on
Unmount(c) ==
    /\ mounted[c]
    /\ mounted' = [mounted EXCEPT ![c] = FALSE]
    /\ reply' = NoReply
    /\ UNCHANGED <<otherVars, user, now, storeVars, net, sent, viewVars, isSubmitting, code, histVars,
                   autoEnds, invalidated>>

\* refetchInterval of the battle query is 5000 (not false)
PollingAlways(c) == TRUE
Polling(c) == isBattleActive[c]
\* the battle query fetches by itself: first load, after invalidateQueries,
\* or on its refetch interval
RefetchDue(c) == mounted[c] /\ (~HasBattle(c) \/ invalidated[c] \/ Polling(c))
Refetch(c) == RefetchDue(c) /\ FetchBattle(c)

\* a viewer presses Join Battle; viewers stop pressing while one request of
\* the budget is left
PressJoin(c) == sent + 1 < MaxRequests /\ handleJoinBattle(c)

LiveNext ==
    \/ Tick
    \/ \E c \in Clients : FetchBattle(c)
    \/ \E c \in Clients : PressJoin(c)
    \/ \E m \in net : JoinSettled(m)
    \/ \E c \in Clients : calculateTimeRemaining(c)
    \/ \E m \in net : EndSettled(m)
    \/ \E c \in Clients : Unmount(c)

\* time passes, the store answers every request, and an open view runs its
\* interval and the fetches its query schedules
LiveFairness ==
    /\ WF_vars(Tick)
    /\ \A c \in Clients : WF_vars(Refetch(c))
    /\ \A c \in Clients : WF_vars(calculateTimeRemaining(c))
    /\ WF_vars(\E m \in net : JoinSettled(m))
    /\ WF_vars(\E m \in net : EndSettled(m))

LiveSpec == Init /\ [][LiveNext]_vars /\ LiveFairness

(* ---------------------------- winner and loser -------------------------- *)
\* loserId of setParticipants, for the battle row b
loserIdSameAsWinner(b) == b.winner_id
loserId(b) == IF b.creator_id = b.winner_id THEN b.defender_id ELSE b.creator_id
\* what the profile lookups of one run of setParticipants came to
LookupReply(c, winnerOk, loserOk) ==
    [kind |-> "profiles", from |-> c, user |-> UserId(c), ok |-> winnerOk /\ loserOk,
     before |-> IF ~winnerOk THEN "winner failed"
                ELSE IF ~loserOk THEN "loser failed" ELSE "found",
     via |-> "effect"]
\* setParticipants of the battle-state effect, run for a completed battle
\* with a winner: winnerOk / loserOk say whether the lookup of the winner's /
\* the loser's profile returns the profile (else an error, which is logged)
setParticipants(c, winnerOk, loserOk) ==
    /\ mounted[c]
    /\ HasBattle(c)
    /\ View(c).status = "completed"
    /\ View(c).winner_id # Null
    /\ IF winnerOk
       THEN /\ winner' = [winner EXCEPT ![c] = View(c).winner_id]
            /\ IF loserId(View(c)) # Null /\ loserOk
               THEN loser' = [loser EXCEPT ![c] = loserId(View(c))]
               ELSE UNCHANGED loser
       ELSE UNCHANGED <<winner, loser>>
    /\ reply' = LookupReply(c, winnerOk, loserOk)
    /\ UNCHANGED <<otherVars, user, mounted, now, storeVars, net, sent, battle, solution,
                   isBattleActive, timeRemaining, flagVars, isSubmitting, code, histVars,
                   autoEnds, invalidated>>

ParticipantsNext ==
    \/ Tick
    \/ \E c \in Clients : FetchBattle(c)
    \/ \E c \in Clients : handleJoinBattle(c)
    \/ \E m \in net : JoinSettled(m)
    \/ \E c \in Clients : calculateTimeRemaining(c)
    \/ \E m \in net : EndSettled(m)
    \/ \E c \in Clients, winnerOk, loserOk \in BOOLEAN : setParticipants(c, winnerOk, loserOk)

ParticipantsSpec == Init /\ [][ParticipantsNext]_vars

(* ---------------------------- the join_battle function ------------------ *)
\* UPDATE battles SET defender_id, status, started_at WHERE id = battle_id,
\* applied to the row with that id at store time ts
join_battle(row, defender_user_id, ts) ==
    [row EXCEPT !.defender_id = defender_user_id, !.status = "in_progress",
                !.start_time = ts]
\* somebody calls rpc('join_battle') for the battle and user u
rpcJoinBattle(u) ==
    /\ sent < MaxRequests
    /\ sent' = sent + 1
    /\ battles' = join_battle(battles, u, now)
    /\ reply' = [kind |-> "join_battle", from |-> "rpc", user |-> u, ok |-> TRUE,
                 before |-> battles.status, via |-> "rpc"]
    /\ UNCHANGED <<otherVars, user, mounted, now, solutions, net, viewVars, isSubmitting, code,
                   histVars, autoEnds, invalidated>>

RpcNext ==
    \/ Tick
    \/ \E c \in Clients : FetchBattle(c)
    \/ \E c \in Clients : handleJoinBattle(c)
    \/ \E m \in net : JoinSettled(m)
    \/ \E c \in Clients : calculateTimeRemaining(c)
    \/ \E m \in net : EndSettled(m)
    \/ \E u \in Users : rpcJoinBattle(u)

RpcSpec == Init /\ [][RpcNext]_vars

(* ---------------------------- initializeDatabase, run ------------------ *)
\* no arena is open
ArenaIdle ==
    /\ user = [c \in Clients |-> Null]
    /\ now = 0
    /\ battles = NewBattle
    /\ solutions = <<>>
    /\ net = {}
    /\ sent = 0
    /\ battle = [c \in Clients |-> <<>>]
    /\ solution = [c \in Clients |-> <<>>]
    /\ isBattleActive = [c \in Clients |-> FALSE]
    /\ isSubmitting = [c \in Clients |-> FALSE]
    /\ timeRemaining = [c \in Clients |-> NoTime]
    /\ code = [c \in Clients |-> ""]
    /\ reply = NoReply
    /\ joined = {}
    /\ refused = {}
    /\ autoEnds = [c \in Clients |-> 0]
    /\ invalidated = [c \in Clients |-> FALSE]
    /\ mounted = [c \in Clients |-> FALSE]
    /\ isBattleOver = [c \in Clients |-> FALSE]
    /\ isBattleReady = [c \in Clients |-> FALSE]
    /\ winner = [c \in Clients |-> Null]
    /\ loser = [c \in Clients |-> Null]
    /\ solution_feedback = <<>>

\* initializeDatabase is about to run; each exec_sql call ends in some way
InitDbInit ==
    /\ ArenaIdle
    /\ AuthIdle
    /\ dbOutcomes \in AllOutcomes
    /\ dbRun = NoRun

runInitializeDatabase ==
    /\ dbRun = NoRun
    /\ dbRun' = initializeDatabase(dbOutcomes)
    /\ UNCHANGED <<arenaVars, authVars, dbOutcomes>>

InitDbNext == runInitializeDatabase

InitDbSpec == InitDbInit /\ [][InitDbNext]_vars

(* ---------------------------- auth context: operations ----------------- *)
\* the ways the exec_sql calls of one initializeDatabase end, as far as the
\* AuthProvider can tell them apart
DbChoices == {AllOk, [AllOk EXCEPT ![1] = "error"], [i \in 1..Len(Statements) |-> "throws"]}
SomeFailed(o) == \E i \in 1..Len(Statements) : o[i] # "ok"
\* how an awaited call to the store or the provider ends
Awaited == {"answer", "error", "throws"}

\* where fetchProfile first suspends: at initializeDatabase when its closure
\* has dbInitialized false, else at the profile query
fetchProfileStart(closure) == IF closure THEN "fp_select" ELSE "fp_db"
\* the caller after its await of fetchProfile: initApp is finished, the
\* handler is ready for the next event
Finished(p) == IF p \in InitRuns THEN [proc[p] EXCEPT !.pc = "done"] ELSE IdleProc
\* loading after initApp's try block, which threw or not: finally sets it
LoadingAfterNoFinally(cur, threw) == IF threw THEN cur ELSE FALSE
LoadingAfter(cur, threw) == FALSE
\* fetchProfile returns to initApp (finally: setLoading(false)) or to the
\* handler (toast, navigate, setLoading(false))
Return(p) ==
    /\ proc' = [proc EXCEPT ![p] = Finished(p)]
    /\ loading' = LoadingAfter(loading, FALSE)
Go(p, pc) == proc' = [proc EXCEPT ![p].pc = pc] /\ UNCHANGED loading

\* a value of dbInitialized as the effect's dependency
Dep(b) == IF b THEN "true" ELSE "false"

\* the effect of AuthProvider runs: at mount, and again when dbInitialized
\* has changed; it calls initApp (setLoading(true)) and subscribes
AuthEffect ==
    /\ effectDb # Dep(dbInitialized)
    /\ LET p == IF effectDb = "none" THEN "init1" ELSE "init2"
       IN  /\ proc[p].pc = "idle"
           /\ proc' = [proc EXCEPT ![p] = [pc |-> "db", closure |-> dbInitialized,
                                           got |-> "none"]]
    /\ loading' = TRUE
    /\ effectDb' = Dep(dbInitialized)
    /\ authReply' = NoAuthReply
    /\ UNCHANGED <<providerUser, ctxUser, profile, session, dbInitialized, profiles,
                   rating_history, signIns, arenaVars, dbVars>>

\* initApp: initializeDatabase has returned
initAppDb(p) ==
    /\ p \in InitRuns /\ proc[p].pc = "db"
    /\ \E o \in DbChoices :
           /\ dbInitialized' = initializeDatabase(o).result
           /\ authReply' = [of |-> p, what |-> IF SomeFailed(o) THEN "db failed" ELSE "db ok"]
    /\ Go(p, "session")
    /\ UNCHANGED <<providerUser, ctxUser, profile, session, profiles, rating_history,
                   effectDb, signIns, arenaVars, dbVars>>

\* initApp: getSession has settled
initAppSession(p) ==
    /\ p \in InitRuns /\ proc[p].pc = "session"
    /\ \E out \in {"answer", "throws"} :
           IF out = "throws"
           THEN /\ proc' = [proc EXCEPT ![p] = [@ EXCEPT !.pc = "done", !.got = "threw"]]
                /\ loading' = LoadingAfter(loading, TRUE)
                /\ UNCHANGED <<session, ctxUser>>
           ELSE /\ session' = providerUser
                /\ ctxUser' = providerUser
                /\ IF providerUser # Null
                   THEN /\ proc' = [proc EXCEPT ![p] =
                                       [@ EXCEPT !.pc = fetchProfileStart(proc[p].closure),
                                                 !.got = "session"]]
                        /\ UNCHANGED loading
                   ELSE /\ proc' = [proc EXCEPT ![p] =
                                       [@ EXCEPT !.pc = "done", !.got = "session"]]
                        /\ loading' = LoadingAfter(loading, FALSE)
    /\ authReply' = NoAuthReply
    /\ UNCHANGED <<providerUser, profile, dbInitialized, profiles, rating_history,
                   effectDb, signIns, arenaVars, dbVars>>

\* the provider signs the user in and the handler runs for SIGNED_IN
SignedInEvent ==
    /\ signIns < MaxSignIns
    /\ effectDb # "none"
    /\ proc["evt"].pc = "idle"
    /\ signIns' = signIns + 1
    /\ providerUser' = Uid
    /\ session' = Uid
    /\ ctxUser' = Uid
    /\ proc' = [proc EXCEPT !["evt"] =
                   [pc |-> IF effectDb = "true" THEN "fp_select" ELSE "h_db",
                    closure |-> (effectDb = "true"), got |-> "none"]]
    /\ authReply' = NoAuthReply
    /\ UNCHANGED <<profile, loading, dbInitialized, profiles, rating_history, effectDb,
                   arenaVars, dbVars>>

\* the handler: initializeDatabase, tried again, has returned
handlerDb ==
    /\ proc["evt"].pc = "h_db"
    /\ \E o \in DbChoices :
           /\ dbInitialized' = initializeDatabase(o).result
           /\ authReply' = [of |-> "evt", what |-> IF SomeFailed(o) THEN "db failed" ELSE "db ok"]
    /\ Go("evt", fetchProfileStart(proc["evt"].closure))
    /\ UNCHANGED <<providerUser, ctxUser, profile, session, profiles, rating_history,
                   effectDb, signIns, arenaVars, dbVars>>

\* the provider ends the session and the handler runs for SIGNED_OUT
SignedOutHandler ==
    /\ providerUser' = Null
    /\ session' = Null
    /\ ctxUser' = Null
    /\ profile' = Null
    /\ loading' = FALSE
SignedOutEvent ==
    /\ effectDb # "none"
    /\ providerUser # Null
    /\ SignedOutHandler
    /\ authReply' = [of |-> "event", what |-> "SIGNED_OUT"]
    /\ UNCHANGED <<dbInitialized, profiles, rating_history, proc, effectDb, signIns,
                   arenaVars, dbVars>>

\* fetchProfile: its own initializeDatabase has returned; setDbInitialized(true)
fetchProfileDb(p) ==
    /\ p \in Fetchers /\ proc[p].pc = "fp_db"
    /\ \E o \in DbChoices :
           authReply' = [of |-> p, what |-> IF SomeFailed(o) THEN "db failed" ELSE "db ok"]
    /\ dbInitialized' = TRUE
    /\ Go(p, "fp_select")
    /\ UNCHANGED <<providerUser, ctxUser, profile, session, profiles, rating_history,
                   effectDb, signIns, arenaVars, dbVars>>

\* fetchProfile: the profile query (.single()) has settled
fetchProfileSelect(p, out) ==
    /\ p \in Fetchers /\ proc[p].pc = "fp_select"
    /\ IF out = "throws"
       THEN Return(p) /\ UNCHANGED profile
       ELSE IF out = "answer" /\ profiles = 1
       THEN Go(p, "rh_count") /\ profile' = Uid
       ELSE Go(p, "cp_getUser") /\ UNCHANGED profile
    /\ authReply' = NoAuthReply
    /\ UNCHANGED <<providerUser, ctxUser, session, dbInitialized, profiles, rating_history,
                   effectDb, signIns, arenaVars, dbVars>>

\* ensureRatingHistory: the count query has settled
ensureRatingHistoryCount(p, out) ==
    /\ p \in Fetchers /\ proc[p].pc = "rh_count"
    /\ IF out = "answer" /\ rating_history = 0
       THEN Go(p, "rh_profile")
       ELSE Return(p)
    /\ authReply' = NoAuthReply
    /\ UNCHANGED <<providerUser, ctxUser, profile, session, dbInitialized, profiles,
                   rating_history, effectDb, signIns, arenaVars, dbVars>>

\* ensureRatingHistory: the query of the profile's rating has settled
ensureRatingHistoryProfile(p, out) ==
    /\ p \in Fetchers /\ proc[p].pc = "rh_profile"
    /\ IF out = "answer" /\ profiles = 1
       THEN Go(p, "rh_insert")
       ELSE Return(p)
    /\ authReply' = NoAuthReply
    /\ UNCHANGED <<providerUser, ctxUser, profile, session, dbInitialized, profiles,
                   rating_history, effectDb, signIns, arenaVars, dbVars>>

\* ensureRatingHistory: the insert of the 'Initial rating' entry has settled
ensureRatingHistoryInsert(p, out) ==
    /\ p \in Fetchers /\ proc[p].pc = "rh_insert"
    /\ rating_history' = IF out = "answer" /\ profiles >= 1
                         THEN rating_history + 1 ELSE rating_history
    /\ Return(p)
    /\ authReply' = NoAuthReply
    /\ UNCHANGED <<providerUser, ctxUser, profile, session, dbInitialized, profiles,
                   effectDb, signIns, arenaVars, dbVars>>

\* createUserProfile: auth.getUser() has settled
createUserProfileGetUser(p, out) ==
    /\ p \in Fetchers /\ proc[p].pc = "cp_getUser"
    /\ IF out = "answer" /\ providerUser # Null
       THEN Go(p, "cp_insert")
       ELSE Return(p)
    /\ authReply' = NoAuthReply
    /\ UNCHANGED <<providerUser, ctxUser, profile, session, dbInitialized, profiles,
                   rating_history, effectDb, signIns, arenaVars, dbVars>>

\* createUserProfile: the insert of the profile has settled; id is the
\* primary key of profiles, so the insert fails when the row exists
createUserProfileInsert(p, out) ==
    /\ p \in Fetchers /\ proc[p].pc = "cp_insert"
    /\ IF out = "answer" /\ profiles = 0
       THEN /\ profiles' = 1
            /\ profile' = Uid
            /\ Go(p, "cp_rh")
       ELSE /\ UNCHANGED <<profiles, profile>>
            /\ Return(p)
    /\ authReply' = NoAuthReply
    /\ UNCHANGED <<providerUser, ctxUser, session, dbInitialized, rating_history,
                   effectDb, signIns, arenaVars, dbVars>>

\* createUserProfile: the insert of the 'Initial rating' entry has settled
createUserProfileRating(p, out) ==
    /\ p \in Fetchers /\ proc[p].pc = "cp_rh"
    /\ rating_history' = IF out = "answer" /\ profiles >= 1
                         THEN rating_history + 1 ELSE rating_history
    /\ Return(p)
    /\ authReply' = NoAuthReply
    /\ UNCHANGED <<providerUser, ctxUser, profile, session, dbInitialized, profiles,
                   effectDb, signIns, arenaVars, dbVars>>

\* signOut is called, by a user the context shows as signed in
signOutCalled ==
    /\ effectDb # "none"
    /\ ctxUser # Null
    /\ proc["signOut"].pc = "idle"
    /\ proc' = [proc EXCEPT !["signOut"].pc = "so_wait"]
    /\ authReply' = NoAuthReply
    /\ UNCHANGED <<providerUser, ctxVars, profiles, rating_history, effectDb, signIns,
                   arenaVars, dbVars>>

\* user, profile and session after signOut's branch on the provider's answer
signOutClearsAlways(ok, cur) == <<Null, Null, Null>>
signOutResult(ok, cur) == IF ok THEN <<Null, Null, Null>> ELSE cur

\* the provider has ended the session (the handler runs for SIGNED_OUT
\* before signOut's await resumes), or it reports an error
signOutSettles(ok) ==
    /\ proc["signOut"].pc = "so_wait"
    /\ IF ok
       THEN /\ SignedOutHandler
            /\ proc' = [proc EXCEPT !["signOut"].pc = "so_return"]
            /\ authReply' = [of |-> "event", what |-> "SIGNED_OUT"]
       ELSE /\ LET r == signOutResult(FALSE, <<ctxUser, profile, session>>)
               IN  ctxUser' = r[1] /\ profile' = r[2] /\ session' = r[3]
            /\ proc' = [proc EXCEPT !["signOut"].pc = "idle"]
            /\ authReply' = [of |-> "signOut", what |-> "error"]
            /\ UNCHANGED <<providerUser, loading>>
    /\ UNCHANGED <<dbInitialized, profiles, rating_history, effectDb, signIns,
                   arenaVars, dbVars>>

\* signOut resumes after a success: setUser(null), setProfile(null),
\* setSession(null), navigate('/')
signOutReturns ==
    /\ proc["signOut"].pc = "so_return"
    /\ LET r == signOutResult(TRUE, <<ctxUser, profile, session>>)
       IN  ctxUser' = r[1] /\ profile' = r[2] /\ session' = r[3]
    /\ proc' = [proc EXCEPT !["signOut"].pc = "idle"]
    /\ authReply' = [of |-> "signOut", what |-> "ok"]
    /\ UNCHANGED <<providerUser, loading, dbInitialized, profiles, rating_history,
                   effectDb, signIns, arenaVars, dbVars>>

\* the AuthProvider mounts: nobody or Uid holds a session with the provider,
\* and Uid may have a profile and an initial rating entry from earlier visits
AuthInit ==
    /\ ArenaIdle
    /\ DbIdle
    /\ providerUser \in {Null, Uid}
    /\ ctxUser = Null /\ profile = Null /\ session = Null
    /\ loading = TRUE /\ dbInitialized = FALSE
    /\ \E n \in {0, 1}, h \in {0, 1} : h <= n /\ profiles = n /\ rating_history = h
    /\ proc = [p \in Procs |-> IdleProc]
    /\ effectDb = "none"
    /\ signIns = 0
    /\ authReply = NoAuthReply

FetchStep(p) ==
    \E out \in Awaited :
        \/ fetchProfileSelect(p, out)
        \/ ensureRatingHistoryCount(p, out)
        \/ ensureRatingHistoryProfile(p, out)
        \/ ensureRatingHistoryInsert(p, out)
        \/ createUserProfileGetUser(p, out)
        \/ createUserProfileInsert(p, out)
        \/ createUserProfileRating(p, out)

AuthNext ==
    \/ AuthEffect
    \/ \E p \in InitRuns : initAppDb(p)
    \/ \E p \in InitRuns : initAppSession(p)
    \/ SignedInEvent
    \/ handlerDb
    \/ SignedOutEvent
    \/ \E p \in Fetchers : fetchProfileDb(p)
    \/ \E p \in Fetchers : FetchStep(p)
    \/ signOutCalled
    \/ \E ok \in BOOLEAN : signOutSettles(ok)
    \/ signOutReturns

AuthSpec == AuthInit /\ [][AuthNext]_vars

\* the AuthProvider while nobody calls signOut: the runs of the effect, the
\* calls of initApp and the events of the provider
AuthLiveNext ==
    \/ AuthEffect
    \/ \E p \in InitRuns : initAppDb(p)
    \/ \E p \in InitRuns : initAppSession(p)
    \/ SignedInEvent
    \/ handlerDb
    \/ SignedOutEvent
    \/ \E p \in Fetchers : fetchProfileDb(p)
    \/ \E p \in Fetchers : FetchStep(p)

\* the effect runs when it is due and an awaited call of initApp settles
InitAppStep ==
    \/ AuthEffect
    \/ \E p \in InitRuns : initAppDb(p) \/ initAppSession(p) \/ fetchProfileDb(p) \/ FetchStep(p)
AuthFairness == WF_vars(InitAppStep)

AuthLiveSpec == AuthInit /\ [][AuthLiveNext]_vars /\ AuthFairness

(* ---------------------------- a viewer who is not signed in ------------ *)
\* Submit Feedback button -> submitFeedbackMutation.mutationFn, which throws
\* before the insert when there is no user id
submitFeedback(c) ==
    /\ mounted[c]
    /\ HasBattle(c)
    /\ ~Pending(c, "feedback")
    /\ IF UserId(c) = Undefined
       THEN NoSend /\ reply' = Reply(FeedbackReq(c), FALSE, "no user")
       ELSE Send(FeedbackReq(c)) /\ reply' = NoReply
    /\ UNCHANGED <<user, mounted, now, storeVars, viewVars, isSubmitting, code, histVars,
                   autoEnds, invalidated, solution_feedback, dbVars, authVars>>

\* insert(solution_feedback).select().single(); onSuccess runs
FeedbackSettled(m) ==
    /\ m \in net /\ m.kind = "feedback"
    /\ net' = net \ {m}
    /\ solution_feedback' = Append(solution_feedback, [user_id |-> m.user])
    /\ reply' = Reply(m, TRUE, battles.status)
    /\ UNCHANGED <<user, mounted, now, sent, storeVars, viewVars, isSubmitting, code,
                   histVars, autoEnds, invalidated, dbVars, authVars>>

\* who is signed in where, when the viewer of tab1 is not signed in
AnonSessions == {<<Null, "C">>, <<Null, "D">>}

AnonInit ==
    /\ \E p \in AnonSessions :
           user = [c \in Clients |-> IF c = "tab1" THEN p[1] ELSE p[2]]
    /\ now = 0
    /\ battles = NewBattle
    /\ solutions = <<>>
    /\ net = {}
    /\ sent = 0
    /\ battle = [c \in Clients |-> <<>>]
    /\ solution = [c \in Clients |-> <<>>]
    /\ isBattleActive = [c \in Clients |-> FALSE]
    /\ isSubmitting = [c \in Clients |-> FALSE]
    /\ timeRemaining = [c \in Clients |-> NoTime]
    /\ code = [c \in Clients |-> ""]
    /\ reply = NoReply
    /\ joined = {}
    /\ refused = {}
    /\ autoEnds = [c \in Clients |-> 0]
    /\ invalidated = [c \in Clients |-> FALSE]
    /\ mounted = [c \in Clients |-> TRUE]
    /\ isBattleOver = [c \in Clients |-> FALSE]
    /\ isBattleReady = [c \in Clients |-> FALSE]
    /\ winner = [c \in Clients |-> Null]
    /\ loser = [c \in Clients |-> Null]
    /\ solution_feedback = <<>>
    /\ DbIdle
    /\ AuthIdle

AnonNext ==
    \/ Tick
    \/ \E c \in Clients : FetchBattle(c)
    \/ \E c \in Clients : FetchSolution(c)
    \/ \E c \in Clients : handleJoinBattle(c)
    \/ \E m \in net : JoinSettled(m)
    \/ \E c \in Clients, s \in Typed : handleSubmitSolution(c, s)
    \/ \E m \in net : SubmitSettled(m)
    \/ \E c \in Clients, w \in Users : handleEndBattle(c, w)
    \/ \E c \in Clients : calculateTimeRemaining(c)
    \/ \E m \in net : EndSettled(m)
    \/ \E c \in Clients : submitFeedback(c)
    \/ \E m \in net : FeedbackSettled(m)
    \/ \E m \in net : RequestFails(m)

AnonSpec == AnonInit /\ [][AnonNext]_vars

(* ======================================================================= *)
(* Claims                                                                  *)
(* ======================================================================= *)
StatusRank(s) == IF s = "waiting" THEN 0 ELSE IF s = "in_progress" THEN 1 ELSE 2
\* the request the step answers: in net before it, gone after it
Answered(m) == m \in net /\ m \notin net'

\* C1: the stored status only moves forward, waiting -> in_progress ->
\* completed: no step takes a completed battle back to in_progress or
\* waiting, nor an in_progress battle back to waiting.
C1_StatusMonotonic ==
    [][StatusRank(battles'.status) >= StatusRank(battles.status)]_vars
\* a join request reached the store after the battle was completed
C1_Witness ==
    reply.kind = "join" /\ reply.before = "completed" /\ battles.status = "completed"

\* C2: of the join requests that reached the store at most one was answered
\* with success; the client that was told it joined is the stored defender;
\* when both clients' joins reached the store, exactly one was told it
\* joined and the other was told it failed.
C2_JoinRace ==
    /\ Cardinality(joined) <= 1
    /\ \A c \in joined : battles.defender_id = user[c]
    /\ \A c \in refused \ joined : battles.defender_id # user[c]
    /\ (joined \cup refused = Clients) =>
           Cardinality(joined) = 1 /\ Cardinality(refused \ joined) = 1
\* one client joined, and the join of the other has just been refused
C2_Witness ==
    /\ joined # {}
    /\ reply.kind = "join" /\ ~reply.ok /\ reply.before = "in_progress"
    /\ reply.from \notin joined

\* C3: once the stored status is completed the stored battle never changes.
C3_CompletedFrozen ==
    [][battles.status = "completed" => battles' = battles]_vars

\* C4: an end request that reaches the store when the battle is not
\* in_progress is answered with an error (and so at most one end succeeds).
C4_EndConditional ==
    (reply.kind = "end" /\ reply.before \in {"waiting", "completed"}) => ~reply.ok

\* C5: a stored winner is the battle's creator or its defender.
C5_WinnerIsParticipant ==
    battles.winner_id # Null =>
        battles.winner_id \in {battles.creator_id, battles.defender_id}
\* the end request of a viewer who is neither creator nor defender (its
\* countdown ran out) has just set the winner
C5_Witness ==
    /\ reply.kind = "end" /\ reply.ok
    /\ reply.user \notin {battles.creator_id, battles.defender_id}
    /\ battles.winner_id # Null

\* C6: a completed battle has a winner and an end timestamp.
C6_CompletedHasWinner ==
    battles.status = "completed" =>
        battles.winner_id # Null /\ battles.end_time # NoTime
\* an end request has just completed the battle
C6_Witness ==
    reply.kind = "end" /\ reply.ok /\ battles.status = "completed"

\* C7: an in_progress battle has a defender and a start timestamp; the step
\* that answers a join of user u with success sets defender = u, status =
\* in_progress and the start timestamp of the request, and leaves creator,
\* problem, duration, winner and end timestamp as they were.
C7_JoinEffect ==
    /\ [](battles.status = "in_progress" =>
              battles.defender_id # Null /\ battles.start_time # NoTime)
    /\ [][\A m \in net :
              (Answered(m) /\ m.kind = "join" /\ reply'.ok) =>
                  battles' = [battles EXCEPT !.defender_id = m.user,
                                             !.status = "in_progress",
                                             !.start_time = m.ts]]_vars
\* a join has just been answered with success
C7_Witness ==
    /\ reply.kind = "join" /\ reply.ok
    /\ battles.status = "in_progress" /\ battles.defender_id = reply.user

\* C8: the defender is never the creator; a join is answered with success
\* only when the battle was waiting and the joining user was not its
\* creator; a join that meets an in_progress or completed battle leaves the
\* stored battle unchanged.
C8_JoinGuard ==
    /\ [](battles.defender_id # battles.creator_id)
    /\ [][(reply'.kind = "join" /\ reply'.ok) =>
              (battles.status = "waiting" /\ reply'.user # battles.creator_id)]_vars
    /\ [][(reply'.kind = "join" /\ reply'.before \in {"in_progress", "completed"}) =>
              battles' = battles]_vars
\* a join has just met a battle that another user had joined
C8_Witness ==
    /\ reply.kind = "join" /\ reply.before = "in_progress" /\ ~reply.ok
    /\ battles.defender_id \notin {Null, reply.user}

\* C9: a Solution row is inserted only for a user who is creator or defender
\* of a battle that is in_progress in the store and who has no Solution yet.
C9_SubmitGate ==
    [][Len(solutions') > Len(solutions) =>
           /\ solutions'[Len(solutions')].user_id
                  \in {battles.creator_id, battles.defender_id}
           /\ battles.status = "in_progress"
           /\ SolutionsOf(solutions'[Len(solutions')].user_id) = <<>>]_vars

\* C10: the store holds at most one Solution per user for the battle.
C10_OneSolutionPerUser ==
    \A u \in Users : Len(SolutionsOf(u)) <= 1

\* the participant of the stored battle who is not u
Opponent(u) ==
    IF u = battles.creator_id THEN battles.defender_id ELSE battles.creator_id
\* the winner the timeout rule gives for viewer u: the opponent when the
\* store holds no Solution of u, else u
TimeoutWinner(u) == IF SolutionsOf(u) = <<>> THEN Opponent(u) ELSE u
\* the step is client c's countdown calling endBattleMutation
TimeoutEndIssued(c) == autoEnds'[c] = autoEnds[c] + 1

\* C11: when the countdown of a participant's client resolves the battle by
\* timeout, the end request names the viewer's opponent if the viewer has no
\* Solution for the battle, and the viewer if the viewer has one.
C11_TimeoutWinnerRule ==
    [][\A c \in Clients :
          (TimeoutEndIssued(c) /\ user[c] \in {battles.creator_id, battles.defender_id})
              => TimeoutEndReq(c, TimeoutWinner(user[c])) \in net']_vars

\* C12: within one viewer session the countdown triggers the automatic end
\* at most once: no client's countdown calls endBattleMutation a second time.
C12_AutoEndOnce == \A c \in Clients : autoEnds[c] <= 1

\* C15: every end request in flight was issued by the client of a
\* participant (the stored creator or defender), and an End Battle control
\* issues one only while its client sees the battle as in_progress.
C15_OnlyParticipantsEnd ==
    /\ [](\A m \in net :
              m.kind = "end" => m.user \in {battles.creator_id, battles.defender_id})
    /\ [][\A m \in net' \ net :
              (m.kind = "end" /\ m.via = "button") =>
                  (HasBattle(m.from) /\ View(m.from).status = "in_progress")]_vars

\* C16: nothing is retried automatically: right after the timeout-triggered
\* end of a client has failed, that client's countdown does not issue
\* another end request on its own.
C16_NoAutomaticRetry ==
    [][\A c \in Clients :
          ~(/\ reply.kind = "end" /\ reply.via = "timeout" /\ reply.from = c
            /\ ~reply.ok
            /\ TimeoutEndIssued(c))]_vars

\* r is the number of whole seconds, rounded up, in left ms; 0 when no time
\* is left
RemainingOk(r, left) ==
    IF left > 0 THEN r * 1000 >= left /\ (r - 1) * 1000 < left ELSE r = 0

\* C13: whenever a client sets timeRemaining, the value is
\* ceil((start + duration * 60 * 1000 - now) / 1000) of the battle it shows
\* when that difference is positive and 0 otherwise, and it is not negative.
C13_CountdownArithmetic ==
    [][\A c \in Clients :
          timeRemaining'[c] # timeRemaining[c] =>
              /\ timeRemaining'[c] >= 0
              /\ RemainingOk(timeRemaining'[c],
                             battle'[c][1].start_time
                                 + battle'[c][1].duration * 60 * 1000 - now')]_vars
\* a countdown shows 5 seconds with 4001 ms left
C13_Witness ==
    \E c \in Clients :
        HasBattle(c) /\ timeLeft(View(c)) = 4001 /\ timeRemaining[c] = 5

\* C14: for the battle a client shows, canJoin = not hasJoined and status =
\* waiting, canSubmit = hasJoined and status = in_progress and no solution,
\* canEnd = hasJoined and status = in_progress and a solution, where
\* hasJoined says the viewer is the shown creator or defender.
C14_RolePredicates ==
    \A c \in Clients :
        HasBattle(c) =>
            LET viewerJoined == user[c] \in {View(c).creator_id, View(c).defender_id}
                status == View(c).status
                hasSolution == solution[c] # <<>>
            IN  /\ canJoin(c) <=> (~viewerJoined /\ status = "waiting")
                /\ canSubmit(c) <=>
                       (viewerJoined /\ status = "in_progress" /\ ~hasSolution)
                /\ canEnd(c) <=> (viewerJoined /\ status = "in_progress" /\ hasSolution)
\* one viewer is neither creator nor defender of the waiting battle it shows
\* and may only join; the other shows a battle it took part in, completed,
\* with its own solution
C14_Witness ==
    \E c, d \in Clients :
        /\ HasBattle(c) /\ View(c).status = "waiting"
        /\ user[c] \notin {View(c).creator_id, View(c).defender_id}
        /\ canJoin(c) /\ ~canSubmit(c) /\ ~canEnd(c)
        /\ HasBattle(d) /\ View(d).status = "completed" /\ hasJoined(d)
        /\ HasSolution(d) /\ ~canEnd(d)

\* C17: a step in which an operation is reported as failed leaves the stored
\* battle and solutions and the clients' battle and solution views as they
\* were; and once a submit request has been answered, with success or with
\* failure, the submitting flag of its client is cleared.
C17_FailureLeavesState ==
    /\ [][(reply'.kind # "none" /\ ~reply'.ok) =>
              UNCHANGED <<battles, solutions, battle, solution>>]_vars
    /\ [][\A m \in net :
              (Answered(m) /\ m.kind = "submit") => ~isSubmitting'[m.from]]_vars
\* a submit request has just failed while the battle, joined by a defender,
\* was stored as in_progress, and the flag is cleared
C17_Witness ==
    /\ reply.kind = "submit" /\ ~reply.ok /\ reply.before = "unreached"
    /\ ~isSubmitting[reply.from]
    /\ battles.status = "in_progress" /\ solutions = <<>>

\* C18: when a join or an end reaches the store and fails because the battle
\* is no longer in the status it needs, the client's battle query is
\* invalidated, so that its view is refetched from the store.
C18_ConflictRefreshes ==
    [][(/\ reply'.kind \in {"join", "end"} /\ ~reply'.ok
        /\ reply'.before \in {"waiting", "in_progress", "completed"})
           => invalidated'[reply'.from]]_vars

\* texts that are empty or white space only
Blank == {"", " "}
\* C19: a submission of empty or white-space-only code is refused before any
\* remote call: no submit request and no stored Solution carries such code,
\* the submitting flag is never raised over such code, and the step that
\* refuses it sends nothing and changes neither the Solutions nor the flag.
C19_EmptySubmissionRejected ==
    /\ [](\A m \in net : m.kind = "submit" => m.code \notin Blank)
    /\ [](\A i \in 1..Len(solutions) : solutions[i].code \notin Blank)
    /\ [][\A c \in Clients :
              (isSubmitting'[c] /\ ~isSubmitting[c]) => code'[c] \notin Blank]_vars
    /\ [][(reply'.kind = "submit" /\ reply'.before = "invalid") =>
              UNCHANGED <<net, sent, solutions, isSubmitting>>]_vars
\* a participant's submission of white space has just been refused
C19_Witness ==
    /\ reply.kind = "submit" /\ reply.before = "invalid" /\ ~reply.ok
    /\ code[reply.from] = " "
    /\ ~isSubmitting[reply.from] /\ ~Pending(reply.from, "submit")

\* C20: for every user with a stored submission, fetching the user's
\* Solution returns the code that was submitted last, unchanged, and a client
\* that has fetched it shows that code in the editor.
C20_RoundTrip ==
    /\ [](\A u \in Users :
              SolutionsOf(u) # <<>> =>
                  /\ SolutionQuery(u) # <<>>
                  /\ SolutionQuery(u)[1].code
                         = SolutionsOf(u)[Len(SolutionsOf(u))].code)
    /\ [][\A c \in Clients :
              (solution'[c] # solution[c] /\ solution'[c] # <<>>) =>
                  code'[c] = solution'[c][1].code]_vars

\* a participant's view that is open on client c
ParticipantViewOpen(c) ==
    mounted[c] /\ user[c] \in {battles.creator_id, battles.defender_id}
Resolved == battles.status = "completed" /\ battles.winner_id # Null

\* C21: whenever the battle is in_progress and start-timestamp + duration
\* has passed, and a signed-in participant's view is open on some client,
\* then, the store answering every request, either that view is closed
\* later or the battle becomes completed with a winner recorded.
C21_TimeoutLiveness ==
    \A c \in Clients :
        (battles.status = "in_progress" /\ timeLeft(battles) <= 0 /\ ParticipantViewOpen(c))
            ~> (Resolved \/ ~mounted[c])

\* C22: once the battle view is left on a client, its countdown no longer
\* runs and its battle query no longer fetches, so that client starts no
\* timeout end request; leaving cancels nothing: the requests in flight stay
\* in flight, and a write of a left view that reaches the store is applied.
C22_LeavingTheView ==
    /\ [][\A c \in Clients :
              ~mounted[c] =>
                  /\ autoEnds'[c] = autoEnds[c]
                  /\ timeRemaining'[c] = timeRemaining[c]
                  /\ battle'[c] = battle[c]
                  /\ \A m \in net' \ net : m.from # c]_vars
    /\ [][\A c \in Clients : (mounted[c] /\ ~mounted'[c]) => net' = net]_vars
    /\ [][\A m \in net \ net' :
              ~mounted[m.from] =>
                  /\ reply'.from = m.from /\ reply'.before = battles.status
                  /\ m.kind = "join" => battles' = JoinUpdate(battles, m)
                  /\ m.kind = "end" => battles' = EndUpdate(battles, m)]_vars
\* the timeout end of a view that was left while the request was in flight
\* has completed the battle
C22_Witness ==
    /\ reply.kind = "end" /\ reply.via = "timeout" /\ reply.ok
    /\ ~mounted[reply.from]
    /\ battles.status = "completed" /\ battles.winner_id # Null

\* C23: a completed battle has a defender and a start timestamp, and no end
\* request, explicit or by timeout, is answered by a store whose battle is
\* still waiting: the battle is completed from in_progress only.
C23_CompletedFromInProgress ==
    /\ battles.status = "completed" =>
           battles.defender_id # Null /\ battles.start_time # NoTime
    /\ \A m \in net : m.kind = "end" => battles.status # "waiting"
    /\ reply.kind = "end" => reply.before # "waiting"
\* an explicit end has just completed a battle that was in_progress
C23_Witness ==
    /\ reply.kind = "end" /\ reply.via = "button" /\ reply.ok
    /\ reply.before = "in_progress"
    /\ battles.status = "completed" /\ battles.defender_id # Null
    /\ battles.start_time # NoTime

\* C24: the countdown of a client issues an end request only in a step
\* after which the battle that client shows is in_progress and has no winner
\* and its start timestamp + duration - now is at most 0 (the countdown runs
\* over the battle just fetched, or over the one shown); while a client
\* shows a battle with time left its countdown issues nothing.
C24_TimeoutEndGuard ==
    [][\A c \in Clients :
          /\ TimeoutEndIssued(c) =>
                 /\ battle'[c] # <<>>
                 /\ battle'[c][1].status = "in_progress"
                 /\ battle'[c][1].winner_id = Null
                 /\ battle'[c][1].start_time + battle'[c][1].duration * 60 * 1000 - now <= 0
          /\ (battle'[c] # <<>>
                 /\ battle'[c][1].start_time + battle'[c][1].duration * 60 * 1000 - now > 0) =>
                 /\ autoEnds'[c] = autoEnds[c]
                 /\ \A m \in net' \ net : ~(m.from = c /\ m.via = "timeout")]_vars
\* a timeout end issued at the very deadline is in flight, and a client has
\* counted down to one second without issuing any
C24_Witness ==
    /\ \E m \in net :
           /\ m.via = "timeout"
           /\ m.ts = battles.start_time + battles.duration * 60 * 1000
    /\ \E c \in Clients : timeRemaining[c] = 1 /\ autoEnds[c] = 0

\* the status of the battle client c fetched last, "none" before the first
\* fetch
FetchedStatus(c) == IF HasBattle(c) THEN View(c).status ELSE "none"

\* C25: on every client the countdown interval runs, and the battle query
\* refetches periodically, exactly while the view is open and the status
\* fetched last is in_progress; the remaining seconds are unset while the
\* client has fetched nothing but a waiting battle; and isBattleActive =
\* (status = in_progress), isBattleOver = (status = completed),
\* isBattleReady = isBattleActive or isBattleOver.
C25_ActiveExactlyInProgress ==
    \A c \in Clients :
        /\ IntervalRunning(c) <=> (mounted[c] /\ FetchedStatus(c) = "in_progress")
        /\ (mounted[c] /\ Polling(c)) <=> (mounted[c] /\ FetchedStatus(c) = "in_progress")
        /\ FetchedStatus(c) \in {"none", "waiting"} => timeRemaining[c] = NoTime
        /\ isBattleActive[c] = (FetchedStatus(c) = "in_progress")
        /\ isBattleOver[c] = (FetchedStatus(c) = "completed")
        /\ isBattleReady[c] = (isBattleActive[c] \/ isBattleOver[c])
\* one client counts down an in_progress battle and polls it, while another
\* one, still open, has fetched it completed and neither counts nor polls
C25_Witness ==
    \E c, d \in Clients :
        /\ FetchedStatus(c) = "in_progress" /\ IntervalRunning(c) /\ Polling(c)
        /\ timeRemaining[c] > 0 /\ isBattleReady[c]
        /\ FetchedStatus(d) = "completed" /\ mounted[d]
        /\ ~IntervalRunning(d) /\ ~Polling(d) /\ isBattleOver[d] /\ isBattleReady[d]

\* C26: a call of the join_battle database function that meets a battle
\* which is already in_progress or completed leaves that battle's defender,
\* status and start timestamp as they were.
C26_JoinFunctionConditional ==
    [][(reply'.kind = "join_battle" /\ reply'.before \in {"in_progress", "completed"}) =>
          /\ battles'.defender_id = battles.defender_id
          /\ battles'.status = battles.status
          /\ battles'.start_time = battles.start_time]_vars

\* C30: the winner and the loser a client displays are never the same
\* user; a run of setParticipants whose lookups both succeed sets the winner
\* to the fetched winner w and the loser to the participant other than w
\* (the defender if w is the creator, otherwise the creator); a run whose
\* winner lookup fails sets neither, and one in which only the loser's
\* lookup fails still sets the winner.
C30_WinnerAndLoser ==
    /\ [](\A c \in Clients : winner[c] # Null => winner[c] # loser[c])
    /\ [][\A c \in Clients :
              (reply'.kind = "profiles" /\ reply'.from = c) =>
                  /\ reply'.before = "winner failed" =>
                         winner'[c] = winner[c] /\ loser'[c] = loser[c]
                  /\ reply'.before = "loser failed" =>
                         winner'[c] = View(c).winner_id /\ loser'[c] = loser[c]
                  /\ reply'.before = "found" =>
                         /\ winner'[c] = View(c).winner_id
                         /\ loser'[c] \in {View(c).creator_id, View(c).defender_id}
                                            \ {View(c).winner_id}]_vars

\* the participants of the stored battle that have a stored Solution
Submitters == {u \in {battles.creator_id, battles.defender_id} : SolutionsOf(u) # <<>>}

\* C27: when exactly one of the two participants has a stored Solution, the
\* end request a participant's countdown issues names that participant as
\* winner, whichever participant's client issues it and whether or not the
\* client has refetched its solution query since its submit.
C27_TimeoutAgreement ==
    [][\A c \in Clients : \A u \in Users :
          (TimeoutEndIssued(c) /\ user[c] \in {battles.creator_id, battles.defender_id}
              /\ Submitters = {u})
              => TimeoutEndReq(c, u) \in net']_vars

\* C28: every end request of an End Battle control names the stored creator
\* or the stored defender as winner; the defender's names the defender; its
\* issuer is a participant who has a stored Solution, and the control is
\* pressed only on a client that shows the battle in_progress with the
\* viewer's Solution fetched.
C28_ExplicitEndChoices ==
    /\ [](\A m \in net :
              (m.kind = "end" /\ m.via = "button") =>
                  /\ m.user \in {battles.creator_id, battles.defender_id}
                  /\ m.winner \in {battles.creator_id, battles.defender_id} \ {Null}
                  /\ m.user = battles.defender_id => m.winner = battles.defender_id
                  /\ SolutionsOf(m.user) # <<>>)
    /\ [][\A m \in net' \ net :
              (m.kind = "end" /\ m.via = "button") =>
                  /\ HasBattle(m.from) /\ View(m.from).status = "in_progress"
                  /\ HasSolution(m.from)
                  /\ m.user \in {View(m.from).creator_id, View(m.from).defender_id}]_vars
\* the creator's End Battle menu has issued an end that names the defender
C28_Witness ==
    \E m \in net :
        /\ m.kind = "end" /\ m.via = "button"
        /\ m.user = battles.creator_id /\ m.winner = battles.defender_id
        /\ m.winner # Null

\* C29: a participant whose client shows the battle in_progress, has no
\* Solution fetched and is not submitting can submit code also when the
\* client's remaining seconds are 0; and a submit request is issued only by a
\* client that shows the battle in_progress, never by one that shows it
\* completed.
C29_SubmitGateIgnoresCountdown ==
    /\ [](\A c \in Clients :
              (/\ mounted[c] /\ HasBattle(c) /\ View(c).status = "in_progress"
               /\ user[c] \in {View(c).creator_id, View(c).defender_id}
               /\ ~HasSolution(c) /\ ~isSubmitting[c]
               /\ timeRemaining[c] = 0
               /\ sent < MaxRequests)
                  => ENABLED (handleSubmitSolution(c, "a") /\ SubmitReq(c, "a") \in net'))
    /\ [][\A m \in net' \ net :
              m.kind = "submit" =>
                  HasBattle(m.from) /\ View(m.from).status = "in_progress"]_vars
\* a Solution submitted at the deadline or later, by a client whose
\* countdown stands at 0, has been stored
C29_Witness ==
    /\ reply.kind = "submit" /\ reply.ok
    /\ timeRemaining[reply.from] = 0
    /\ solutions # <<>>
    /\ solutions[Len(solutions)].submitted_at >= battles.start_time + battles.duration * 60 * 1000

\* C31: a viewer who is not signed in causes no store write: no request of
\* such a client is ever in flight and no stored row carries its (absent)
\* id; a step that answers it (the join refused with the redirect to login,
\* a feedback or submit mutation failing for want of a user id) issues
\* nothing and leaves the store as it is; its Join Battle press closes the
\* view; and its countdown issues no end, also after the deadline.
C31_AnonymousWritesNothing ==
    /\ [](\A m \in net : user[m.from] # Null /\ m.user \in Users)
    /\ [](/\ {battles.creator_id, battles.defender_id, battles.winner_id}
                 \subseteq Users \cup {Null}
          /\ \A i \in 1..Len(solutions) : solutions[i].user_id \in Users
          /\ \A i \in 1..Len(solution_feedback) : solution_feedback[i].user_id \in Users)
    /\ [][\A c \in Clients :
              user[c] = Null =>
                  /\ autoEnds'[c] = autoEnds[c]
                  /\ reply'.from = c =>
                         /\ ~reply'.ok
                         /\ reply'.before \in {"login", "no user"}
                         /\ UNCHANGED <<net, sent, storeVars, solution_feedback>>
                  /\ (reply'.from = c /\ reply'.kind = "join") =>
                         reply'.before = "login" /\ ~mounted'[c]]_vars
\* after the deadline a viewer who is not signed in shows the battle
\* in_progress at 0 seconds, has issued no end, and its feedback has just
\* failed for want of a user id
C31_Witness ==
    \E c \in Clients :
        /\ user[c] = Null
        /\ HasBattle(c) /\ View(c).status = "in_progress"
        /\ timeLeft(View(c)) <= 0 /\ timeRemaining[c] = 0 /\ autoEnds[c] = 0
        /\ reply.from = c /\ reply.kind = "feedback" /\ reply.before = "no user"

\* C32: the profile bootstrap creates at most one profile row and at most
\* one 'Initial rating' entry of rating_history for the user, also when
\* several fetchProfile calls (of initApp, run once per run of the effect,
\* and of the handler of a SIGNED_IN event) are in flight together.
C32_AtMostOneBootstrap ==
    profiles <= 1 /\ rating_history <= 1

\* C33: once a sign-out has been processed the profile is null whenever the
\* user is null, also when a fetchProfile or createUserProfile that started
\* before the sign-out completes after it.
C33_NoProfileWithoutUser ==
    ctxUser = Null => profile = Null

\* C34: signOut clears user, profile and session together when the provider
\* reports success, and leaves all three as they are when it reports an
\* error.
C34_SignOutClearsTogether ==
    [][authReply'.of = "signOut" =>
           IF authReply'.what = "ok"
           THEN ctxUser' = Null /\ profile' = Null /\ session' = Null
           ELSE /\ authReply'.what = "error"
                /\ UNCHANGED <<ctxUser, profile, session>>]_vars
\* a signOut that the provider answered with an error has just returned,
\* and the user is still shown signed in, with profile and session
C34_Witness ==
    /\ authReply = [of |-> "signOut", what |-> "error"]
    /\ ctxUser = Uid /\ profile = Uid /\ session = Uid

\* C35: auth initialisation always finishes: every run of initApp that has
\* started comes to its end and loading is eventually false for good,
\* whether the database initialisation, the session lookup and the profile
\* fetch succeed, fail or throw; a database initialisation with failed
\* statements is followed by the session lookup all the same, and a lookup
\* that answers loads the session and the user.
C35_InitAlwaysFinishes ==
    /\ <>[](loading = FALSE)
    /\ \A p \in InitRuns : (proc[p].pc # "idle") ~> (proc[p].pc = "done")
    /\ [][\A p \in InitRuns :
              (proc[p].pc = "db" /\ authReply'.of = p /\ authReply'.what = "db failed")
                  => proc'[p].pc = "session"]_vars
    /\ [][\A p \in InitRuns :
              (proc[p].pc = "session" /\ proc'[p].got = "session")
                  => session' = providerUser /\ ctxUser' = providerUser]_vars
\* both runs of initApp are over, the session lookup of the first one threw,
\* and loading is false
C35_Witness ==
    /\ proc["init1"].pc = "done" /\ proc["init1"].got = "threw"
    /\ proc["init2"].pc = "done"
    /\ loading = FALSE

\* C36: initializeDatabase attempts all five provisioning statements, in the
\* order profiles, rating_history, battles, submissions, join_battle, however
\* each of them ends: a statement that fails (its call resolves with an
\* error, or rejects and is logged with a warning) does not prevent the later
\* ones from being attempted, and the function reports true regardless.
C36_AllStatementsAttempted ==
    dbRun # NoRun =>
        /\ dbRun.attempted = Statements
        /\ dbRun.result = TRUE
        /\ \A i \in 1..Len(Statements) :
               dbOutcomes[i] = "throws" <=>
                   \E j \in 1..Len(dbRun.warned) : dbRun.warned[j] = Statements[i]
\* a run in which the first statement rejected and the second resolved with
\* an error went on to the last statement and reported true
C36_Witness ==
    /\ dbOutcomes[1] = "throws" /\ dbOutcomes[2] = "error"
    /\ dbRun.attempted = Statements
    /\ dbRun.warned # <<>>
    /\ dbRun.result = TRUE

====
